---------------------------- MODULE Spec2Model ----------------------------
(***************************************************************************)
(* Batch execution engine of nomacs (ImageLounge/src/DkLoader/DkProcess.cpp) *)
(*                                                                         *)
(* DkBatchProcess   : the per-file state machine (compute, process,        *)
(*                    prepareDeleteExisting, deleteOrRestoreExisting, ...)  *)
(* DkBatchProcessing: the runner (init, compute, cancel, the result        *)
(*                    getters) on top of QtConcurrent::map and a           *)
(*                    QFutureWatcher.                                      *)
(*                                                                         *)
(* The file system is a map from paths to contents.  Every file operation  *)
(* of the code (rename, remove, copy, save, load) is one step of the       *)
(* worker that executes it; its outcome is chosen by the environment.      *)
(***************************************************************************)
EXTENDS Integers, Sequences, FiniteSets, TLC

\* ------------------------------------------------------------------ bounds
\* number of files in DkBatchConfig::mFileList
MaxItems == 2
\* number of calls of DkBatchProcessing::compute() in one behaviour
MaxRuns == 2
\* longest process chain (DkBatchConfig::getProcessFunctions())
MaxSteps == 2
\* threads of the pool QtConcurrent::map runs on
MaxWorkers == 2
\* operations (load, step, rename, remove, copy, save) that fail in one behaviour
MaxFaults == 2
\* longest side, in pixels, of an image a step is applied to
MaxSide == 3
\* longest plugin list (DkPluginBatch::mPluginList)
MaxPlugins == 2

\* --------------------------------------------------------------- constants
\* DkBatchConfig::mode_skip_existing / mode_overwrite
mode_skip_existing == "mode_skip_existing"
mode_overwrite == "mode_overwrite"

\* DkBatchProcessing::batch_item_*
batch_item_not_computed == "batch_item_not_computed"
batch_item_succeeded == "batch_item_succeeded"
batch_item_failed == "batch_item_failed"

\* DkResizeBatch::mode_*; mode_width stands for every other value of mMode
\* (no branch of prepareProperties() names it)
mode_default == "mode_default"
mode_long_side == "mode_long_side"
mode_short_side == "mode_short_side"
mode_height == "mode_height"
mode_width == "mode_width"

\* DkResizeBatch::prop_*
prop_default == "prop_default"
prop_decrease_only == "prop_decrease_only"
prop_increase_only == "prop_increase_only"

VARIABLES
    cfg,            \* mBatchConfig: mode, deleteOriginal, nSteps, per file kind
    fs,             \* the file system: path -> content
    mBatchItems,    \* DkBatchProcessing::mBatchItems (sequence of DkBatchProcess)
    oldItems,       \* storage of a list that init() released under a live run
    mResList,       \* DkBatchProcessing::mResList
    running,        \* mBatchWatcher.isRunning()
    cancelled,      \* mBatchWatcher.isCanceled()
    finishedSig,    \* finished() was emitted for the watched future
    started,        \* indices QtConcurrent::map handed to a worker
    pc,             \* position of the worker of each index
    loc,            \* locals of each worker (chain index, output renamed
                    \* aside, result of save)
    pre,            \* the contents of the item's paths when its compute()
                    \* was called
    futStale,       \* does the running map still iterate a live list?
    callerPc,       \* position of the (GUI) thread inside compute()
    runs,           \* number of futures dispatched so far
    faults,         \* number of operations the environment let fail so far
    mProcessFunctions,  \* the process chain, step by step, with its properties
    proc,           \* process() of each item on its image: position, imgC,
                    \* mInfos, mFailure and the image that was saved
    last,           \* the last compute() of a step on each item: the image it
                    \* was given, the image it made, its result, the plugins
                    \* it ran
    delivered       \* what postLoad() handed to the plugins of each step

vars == <<cfg, fs, mBatchItems, oldItems, mResList, running, cancelled,
          finishedSig, started, pc, loc, pre, futStale, callerPc, runs,
          faults, mProcessFunctions, proc, last, delivered>>

\* the files and the runner
fileVars == <<cfg, fs, mBatchItems, oldItems, mResList, running, cancelled,
              finishedSig, started, pc, loc, pre, futStale, callerPc, runs>>

\* the images and the steps
stepVars == <<mProcessFunctions, proc, last, delivered>>

\* the indices of mFileList
Idx == 1..cfg.n

\* ------------------------------------------------------------ file system
None == <<"none", 0>>
InContent(i) == <<"in", i>>
OldContent(i) == <<"old", i>>
NewContent(r) == <<"new", r>>
PartContent(r) == <<"part", r>>

\* how the converted file name relates to the input file
Kinds == {"same_path", "same_suffix", "other_suffix"}

InPath(i) == <<"in", i, 0>>
OutPath(i) == IF cfg.kind[i] = "same_path" THEN InPath(i) ELSE <<"out", i, 0>>
BackupName(i, r) == <<"bu", i, r>>
NoPath == <<"", 0, 0>>

Paths == {InPath(i) : i \in Idx} \cup {<<"out", i, 0>> : i \in Idx}
            \cup {BackupName(i, r) : i \in Idx, r \in 1..MaxRuns}

Exists(path) == path \in DOMAIN fs /\ fs[path] # None


\* ------------------------------------------------------- DkBatchProcess
\* a freshly constructed DkBatchProcess (only the fields compute() writes;
\* paths, mode and flags are copies of the configuration)
NewItem == [mIsProcessed |-> FALSE, mFailure |-> 0, mBackupFilePath |-> NoPath]

NewLoc == [k |-> 0, prepared |-> "no", backup |-> FALSE, saved |-> FALSE]
NoPre == [in |-> None, out |-> None]

\* the storage a worker of the running map dereferences for index i
Mem(i) == IF futStale = "freed" THEN oldItems[i] ELSE mBatchItems[i]

\* a worker stores item i
WriteItem(i, item) ==
    IF futStale = "freed"
    THEN /\ oldItems' = [oldItems EXCEPT ![i] = item]
         /\ UNCHANGED mBatchItems
    ELSE /\ mBatchItems' = [mBatchItems EXCEPT ![i] = item]
         /\ UNCHANGED oldItems

\* mFailure++
Failed(item) == [item EXCEPT !.mFailure = @ + 1]

hasFailed(item) == item.mFailure # 0

wasProcessed(item) == item.mIsProcessed

\* ComputeBranch without the check "input == output and no process functions"
ComputeBranch_NoNothingToDo(i) ==
    LET outE == Exists(OutPath(i))
        inE == Exists(InPath(i))
        noSteps == cfg.nSteps = 0
        samePath == InPath(i) = OutPath(i)
        sameSuffix == cfg.kind[i] # "other_suffix"
    IN  IF outE /\ cfg.mode = mode_skip_existing THEN "skip_exists"
        ELSE IF ~inE THEN "input_missing"
        ELSE IF noSteps /\ samePath /\ sameSuffix THEN "rename"
        ELSE IF noSteps /\ sameSuffix THEN "copy"
        ELSE "process"

\* ComputeBranch without the check "output exists and mode is skip-existing"
ComputeBranch_NoSkip(i) ==
    LET inE == Exists(InPath(i))
        noSteps == cfg.nSteps = 0
        samePath == InPath(i) = OutPath(i)
        sameSuffix == cfg.kind[i] # "other_suffix"
    IN  IF ~inE THEN "input_missing"
        ELSE IF samePath /\ noSteps THEN "nothing_to_do"
        ELSE IF noSteps /\ samePath /\ sameSuffix THEN "rename"
        ELSE IF noSteps /\ sameSuffix THEN "copy"
        ELSE "process"

\* the branch compute() takes after mIsProcessed = true
ComputeBranch(i) ==
    LET outE == Exists(OutPath(i))
        inE == Exists(InPath(i))
        noSteps == cfg.nSteps = 0
        samePath == InPath(i) = OutPath(i)
        sameSuffix == cfg.kind[i] # "other_suffix"
    IN  IF outE /\ cfg.mode = mode_skip_existing THEN "skip_exists"
        ELSE IF ~inE THEN "input_missing"
        ELSE IF samePath /\ noSteps THEN "nothing_to_do"
        ELSE IF noSteps /\ samePath /\ sameSuffix THEN "rename"
        ELSE IF noSteps /\ sameSuffix THEN "copy"
        ELSE "process"

WorkerOn(i) == running /\ i \in started

\* the unchanged parts of a worker step that touches item i, its position
\* and possibly the file system
WorkerFrame == UNCHANGED <<stepVars, cfg, mResList, running, cancelled, finishedSig,
                           started, futStale, callerPc, runs>>

\* computeItem(): QtConcurrent::map hands item i to a worker, which enters
\* compute(): mIsProcessed = true
computeItem(i) ==
    /\ running /\ ~cancelled
    /\ i \notin started
    /\ Cardinality({j \in started : pc[j] # "done"}) < MaxWorkers
    /\ started' = started \cup {i}
    /\ WriteItem(i, [Mem(i) EXCEPT !.mIsProcessed = TRUE])
    /\ pre' = [pre EXCEPT ![i] = [in |-> fs[InPath(i)], out |-> fs[OutPath(i)]]]
    /\ pc' = [pc EXCEPT ![i] = "check"]
    /\ UNCHANGED stepVars
    /\ UNCHANGED <<cfg, fs, mResList, running, cancelled, finishedSig, loc,
                   futStale, callerPc, runs, faults>>

\* compute(), "check errors": the three branches that log, count a failure
\* and return
ErrorBranches == {"skip_exists", "input_missing", "nothing_to_do"}

\* checkErrors that logs a missing input but does not count it
checkErrors_MissingInputUncounted(b, item) ==
    IF b \in ErrorBranches \ {"input_missing"} THEN Failed(item) ELSE item

checkErrors(b, item) == IF b \in ErrorBranches THEN Failed(item) ELSE item

\* compute(): the error checks and the choice of rename / copy / process
compute(i) ==
    /\ WorkerOn(i) /\ pc[i] = "check"
    /\ LET b == ComputeBranch(i)
       IN  /\ WriteItem(i, checkErrors(b, Mem(i)))
           /\ pc' = [pc EXCEPT ![i] = IF b \in ErrorBranches THEN "done" ELSE b]
    /\ UNCHANGED <<fs, loc, pre, faults>>
    /\ WorkerFrame

\* deleteOrRestoreExisting that leaves the back-up where it is after a save
deleteOrRestoreExisting_KeepsBackup(f, out, item, rmOk, mvOk) ==
    LET bu == item.mBackupFilePath
        outE == f[out] # None
        buE == bu \in DOMAIN f /\ f[bu] # None
    IN  IF ~outE
        THEN IF mvOk /\ buE
             THEN [fs |-> [f EXCEPT ![out] = f[bu], ![bu] = None], ok |-> TRUE]
             ELSE [fs |-> f, ok |-> FALSE]
        ELSE [fs |-> f, ok |-> TRUE]

\* deleteOrRestoreExisting() on file system f for an item; rmOk and mvOk are
\* the outcomes the environment gives QFile::remove and QFile::rename.
\* The result is the new file system and the returned bool.
deleteOrRestoreExisting(f, out, item, rmOk, mvOk) ==
    LET bu == item.mBackupFilePath
        outE == f[out] # None
        buE == bu \in DOMAIN f /\ f[bu] # None
    IN  IF outE /\ bu # NoPath /\ buE
        THEN IF rmOk
             THEN [fs |-> [f EXCEPT ![bu] = None], ok |-> TRUE]
             ELSE [fs |-> f, ok |-> FALSE]
        ELSE IF ~outE
        THEN IF mvOk /\ buE
             THEN [fs |-> [f EXCEPT ![out] = f[bu], ![bu] = None], ok |-> TRUE]
             ELSE [fs |-> f, ok |-> FALSE]
        ELSE [fs |-> f, ok |-> TRUE]

\* QFile::copy: fails when the target exists or the source is missing
FileCopy(f, from, to, cpOk) ==
    IF cpOk /\ f[from] # None /\ f[to] = None
    THEN [fs |-> [f EXCEPT ![to] = f[from]], ok |-> TRUE]
    ELSE [fs |-> f, ok |-> FALSE]

\* QFile::rename: fails when the target exists or the source is missing
FileRename(f, from, to, mvOk) ==
    IF mvOk /\ from \in DOMAIN f /\ f[from] # None /\ f[to] = None
    THEN [fs |-> [f EXCEPT ![to] = f[from], ![from] = None], ok |-> TRUE]
    ELSE [fs |-> f, ok |-> FALSE]

\* copyFile() on file system f
copyFile(f, i, item, rmOk, mvOk, cpOk) ==
    LET d == IF f[OutPath(i)] # None /\ cfg.mode = mode_overwrite
             THEN deleteOrRestoreExisting(f, OutPath(i), item, rmOk, mvOk)
             ELSE [fs |-> f, ok |-> TRUE]
    IN  IF ~d.ok THEN d
        ELSE FileCopy(d.fs, InPath(i), OutPath(i), cpOk)

\* renameFile() on file system f
renameFile(f, i, mvOk) ==
    IF f[OutPath(i)] # None
    THEN [fs |-> f, ok |-> FALSE]
    ELSE FileRename(f, InPath(i), OutPath(i), mvOk)

\* the outcomes the environment may give an operation: it succeeds, or, while
\* fewer than MaxFaults operations have failed, it fails
Env == IF faults < MaxFaults THEN BOOLEAN ELSE {TRUE}

\* an operation was let fail (ok is false): one more fault
Spend(ok) == faults' = IF ok THEN faults ELSE faults + 1

\* compute(), the branches "rename?" and "copy?"
renameOrCopy(i) ==
    /\ WorkerOn(i) /\ pc[i] \in {"rename", "copy"}
    /\ \E rmOk \in Env, mvOk \in Env, cpOk \in Env :
         LET Run(rm, mv, cp) == IF pc[i] = "rename"
                                THEN renameFile(fs, i, mv)
                                ELSE copyFile(fs, i, Mem(i), rm, mv, cp)
             r == Run(rmOk, mvOk, cpOk)
             allOk == rmOk /\ mvOk /\ cpOk
         IN  /\ allOk \/ r # Run(TRUE, TRUE, TRUE)
             /\ Cardinality({x \in {rmOk, mvOk, cpOk} : ~x}) <= 1
             /\ Spend(allOk)
             /\ fs' = r.fs
             /\ IF ~r.ok
                THEN /\ WriteItem(i, Failed(Mem(i)))
                     /\ pc' = [pc EXCEPT ![i] = "done"]
                ELSE /\ UNCHANGED <<mBatchItems, oldItems>>
                     /\ pc' = [pc EXCEPT ![i] =
                                  IF pc[i] = "copy" THEN "delete_original" ELSE "done"]
    /\ UNCHANGED <<loc, pre>>
    /\ WorkerFrame

\* deleteOriginalFile that does not look at mDeleteOriginal
deleteOriginalFile_IgnoresFlag(i) ==
    /\ WorkerOn(i) /\ pc[i] = "delete_original"
    /\ IF InPath(i) # OutPath(i) /\ Mem(i).mFailure = 0
       THEN \E rmOk \in Env :
              /\ rmOk \/ fs[InPath(i)] # None
              /\ Spend(rmOk)
              /\ IF rmOk /\ fs[InPath(i)] # None
                 THEN /\ fs' = [fs EXCEPT ![InPath(i)] = None]
                      /\ UNCHANGED <<mBatchItems, oldItems>>
                 ELSE /\ WriteItem(i, Failed(Mem(i)))
                      /\ UNCHANGED fs
       ELSE UNCHANGED <<fs, mBatchItems, oldItems, faults>>
    /\ pc' = [pc EXCEPT ![i] = "done"]
    /\ UNCHANGED <<loc, pre>>
    /\ WorkerFrame

\* deleteOriginalFile()
deleteOriginalFile(i) ==
    /\ WorkerOn(i) /\ pc[i] = "delete_original"
    /\ IF InPath(i) # OutPath(i) /\ Mem(i).mFailure = 0 /\ cfg.deleteOriginal
       THEN \E rmOk \in Env :
              /\ rmOk \/ fs[InPath(i)] # None
              /\ Spend(rmOk)
              /\ IF rmOk /\ fs[InPath(i)] # None
                 THEN /\ fs' = [fs EXCEPT ![InPath(i)] = None]
                      /\ UNCHANGED <<mBatchItems, oldItems>>
                 ELSE /\ WriteItem(i, Failed(Mem(i)))
                      /\ UNCHANGED fs
       ELSE UNCHANGED <<fs, mBatchItems, oldItems, faults>>
    /\ pc' = [pc EXCEPT ![i] = "done"]
    /\ UNCHANGED <<loc, pre>>
    /\ WorkerFrame

\* process(): load the image
loadImage(i) ==
    /\ WorkerOn(i) /\ pc[i] = "process"
    /\ \E ok \in Env :
         /\ ok \/ fs[InPath(i)] # None
         /\ Spend(ok)
         /\ IF ok /\ fs[InPath(i)] # None
            THEN /\ pc' = [pc EXCEPT ![i] = IF cfg.nSteps = 0 THEN "prepare" ELSE "chain"]
                 /\ loc' = [loc EXCEPT ![i].k = 1]
                 /\ UNCHANGED <<mBatchItems, oldItems>>
            ELSE /\ WriteItem(i, Failed(Mem(i)))
                 /\ pc' = [pc EXCEPT ![i] = "done"]
                 /\ UNCHANGED loc
    /\ UNCHANGED <<fs, pre>>
    /\ WorkerFrame

\* the loop over mProcessFunctions that returns at the first step that fails
batchCompute_AbortsOnFailure(i) ==
    /\ WorkerOn(i) /\ pc[i] = "chain"
    /\ \E ok \in Env :
         /\ Spend(ok)
         /\ IF ok
            THEN /\ UNCHANGED <<mBatchItems, oldItems>>
                 /\ IF loc[i].k = cfg.nSteps
                    THEN /\ pc' = [pc EXCEPT ![i] = "prepare"]
                         /\ UNCHANGED loc
                    ELSE /\ loc' = [loc EXCEPT ![i].k = @ + 1]
                         /\ UNCHANGED pc
            ELSE /\ WriteItem(i, Failed(Mem(i)))
                 /\ pc' = [pc EXCEPT ![i] = "done"]
                 /\ UNCHANGED loc
    /\ UNCHANGED <<fs, pre>>
    /\ WorkerFrame

\* process(): one iteration of the loop over mProcessFunctions
batchCompute(i) ==
    /\ WorkerOn(i) /\ pc[i] = "chain"
    /\ \E ok \in Env :
         /\ Spend(ok)
         /\ IF ok
            THEN UNCHANGED <<mBatchItems, oldItems>>
            ELSE WriteItem(i, Failed(Mem(i)))
    /\ IF loc[i].k = cfg.nSteps
       THEN /\ pc' = [pc EXCEPT ![i] = "prepare"]
            /\ UNCHANGED loc
       ELSE /\ loc' = [loc EXCEPT ![i].k = @ + 1]
            /\ UNCHANGED pc
    /\ UNCHANGED <<fs, pre>>
    /\ WorkerFrame

\* prepareDeleteExisting() on file system f; collide: a file of the generated
\* back-up name exists already.  The result is the new file system, the
\* returned bool, the value of mBackupFilePath and whether the output was
\* renamed aside.
prepareDeleteExisting(f, out, item, buFile, collide, mvOk) ==
    IF f[out] # None /\ cfg.mode = mode_overwrite
    THEN LET r == FileRename(f, out, buFile, mvOk)
         IN  IF collide \/ f[buFile] # None \/ ~r.ok
             THEN [fs |-> f, ok |-> FALSE, bu |-> item.mBackupFilePath,
                   took |-> FALSE]
             ELSE [fs |-> r.fs, ok |-> TRUE, bu |-> buFile, took |-> TRUE]
    ELSE [fs |-> f, ok |-> TRUE, bu |-> item.mBackupFilePath, took |-> FALSE]

\* process() that counts the failure of prepareDeleteExisting() and saves anyway
prepare_SavesAnyway(i) ==
    /\ WorkerOn(i) /\ pc[i] = "prepare"
    /\ \E free \in Env, mvOk \in Env :
         LET Run(fr, mv) == prepareDeleteExisting(fs, OutPath(i), Mem(i),
                                                  BackupName(i, runs), ~fr, mv)
             r == Run(free, mvOk)
         IN  /\ (free /\ mvOk) \/ (r # Run(TRUE, TRUE) /\ (free \/ mvOk))
             /\ Spend(free /\ mvOk)
             /\ fs' = r.fs
             /\ IF r.ok
                THEN /\ WriteItem(i, [Mem(i) EXCEPT !.mBackupFilePath = r.bu])
                     /\ pc' = [pc EXCEPT ![i] = "save"]
                ELSE /\ WriteItem(i, Failed(Mem(i)))
                     /\ pc' = [pc EXCEPT ![i] = "save"]
             /\ loc' = [loc EXCEPT ![i].backup = r.took,
                                   ![i].prepared = IF r.ok THEN "ok" ELSE "failed"]
    /\ UNCHANGED pre
    /\ WorkerFrame

\* process(): prepareDeleteExisting(), "report we could not back-up & break"
prepare(i) ==
    /\ WorkerOn(i) /\ pc[i] = "prepare"
    /\ \E free \in Env, mvOk \in Env :
         LET Run(fr, mv) == prepareDeleteExisting(fs, OutPath(i), Mem(i),
                                                  BackupName(i, runs), ~fr, mv)
             r == Run(free, mvOk)
         IN  /\ (free /\ mvOk) \/ (r # Run(TRUE, TRUE) /\ (free \/ mvOk))
             /\ Spend(free /\ mvOk)
             /\ fs' = r.fs
             /\ IF r.ok
                THEN /\ WriteItem(i, [Mem(i) EXCEPT !.mBackupFilePath = r.bu])
                     /\ pc' = [pc EXCEPT ![i] = "save"]
                ELSE /\ WriteItem(i, Failed(Mem(i)))
                     /\ pc' = [pc EXCEPT ![i] = "done"]
             /\ loc' = [loc EXCEPT ![i].backup = r.took,
                                   ![i].prepared = IF r.ok THEN "ok" ELSE "failed"]
    /\ UNCHANGED pre
    /\ WorkerFrame

\* what a call of saveImage() can leave behind: the new image and true; false
\* and nothing written; false and a file that was opened but not completed
SaveOutcomes == IF faults < MaxFaults
                THEN {"saved", "failed", "failed_partial"}
                ELSE {"saved"}

\* the file system after saveImage() with outcome o
SavedFiles(f, out, o, r) ==
    CASE o = "saved" -> [f EXCEPT ![out] = NewContent(r)]
      [] o = "failed" -> f
      [] o = "failed_partial" -> [f EXCEPT ![out] = PartContent(r)]

\* process(): imgC->saveImage(mFilePathOut, mCompression)
saveImage(i) ==
    /\ WorkerOn(i) /\ pc[i] = "save"
    /\ \E o \in SaveOutcomes :
         /\ Spend(o = "saved")
         /\ fs' = SavedFiles(fs, OutPath(i), o, runs)
         /\ IF o = "saved"
            THEN UNCHANGED <<mBatchItems, oldItems>>
            ELSE WriteItem(i, Failed(Mem(i)))
         /\ loc' = [loc EXCEPT ![i].saved = (o = "saved")]
    /\ pc' = [pc EXCEPT ![i] = "finalize"]
    /\ UNCHANGED pre
    /\ WorkerFrame

\* process(): deleteOrRestoreExisting() after the save
finalize(i) ==
    /\ WorkerOn(i) /\ pc[i] = "finalize"
    /\ \E rmOk \in Env, mvOk \in Env :
         LET Run(rm, mv) == deleteOrRestoreExisting(fs, OutPath(i), Mem(i), rm, mv)
             r == Run(rmOk, mvOk)
         IN  /\ (rmOk /\ mvOk) \/ (r # Run(TRUE, TRUE) /\ (rmOk \/ mvOk))
             /\ Spend(rmOk /\ mvOk)
             /\ fs' = r.fs
             /\ IF r.ok
                THEN UNCHANGED <<mBatchItems, oldItems>>
                ELSE WriteItem(i, Failed(Mem(i)))
    /\ pc' = [pc EXCEPT ![i] = "done"]
    /\ UNCHANGED <<loc, pre>>
    /\ WorkerFrame

\* ---------------------------------------------------- DkBatchProcessing
\* init(): the list holds one fresh DkBatchProcess per file of the list
init == [i \in Idx |-> NewItem]

\* compute(), first half: init() runs before the watcher is asked whether a
\* run is in flight.  Workers of that run keep iterating the storage init()
\* released: it either stays as it was ("freed") or is the storage the new
\* items were built in ("aliased").
computeInit ==
    /\ callerPc = "idle"
    /\ runs < MaxRuns
    /\ mBatchItems' = init
    /\ IF running
       THEN \E st \in {"freed", "aliased"} :
              /\ futStale' = st
              /\ oldItems' = IF st = "freed" THEN mBatchItems ELSE <<>>
       ELSE UNCHANGED <<futStale, oldItems>>
    /\ callerPc' = "wait"
    /\ UNCHANGED stepVars
    /\ UNCHANGED <<cfg, fs, mResList, running, cancelled, finishedSig, started,
                   pc, loc, pre, runs, faults>>

\* compute(), second half: waitForFinished() has returned (or no run was in
\* flight); QtConcurrent::map over mBatchItems, mBatchWatcher.setFuture()
computeDispatch ==
    /\ callerPc = "wait"
    /\ ~running
    /\ running' = TRUE
    /\ cancelled' = FALSE
    /\ finishedSig' = FALSE
    /\ started' = {}
    /\ pc' = [i \in Idx |-> "idle"]
    /\ loc' = [i \in Idx |-> NewLoc]
    /\ pre' = [i \in Idx |-> NoPre]
    /\ futStale' = "no"
    /\ oldItems' = <<>>
    /\ runs' = runs + 1
    /\ callerPc' = "idle"
    /\ UNCHANGED stepVars
    /\ UNCHANGED <<cfg, fs, mBatchItems, mResList, faults>>

\* the map is over: every index handed out has returned and no other will be
\* handed out; the future reports finished
futureFinished ==
    /\ running
    /\ \A i \in started : pc[i] = "done"
    /\ cancelled \/ started = Idx
    /\ running' = FALSE
    /\ finishedSig' = TRUE
    /\ UNCHANGED stepVars
    /\ UNCHANGED <<cfg, fs, mBatchItems, oldItems, mResList, cancelled, started,
                   pc, loc, pre, futStale, callerPc, runs, faults>>

\* cancel()
cancel ==
    /\ callerPc = "idle"
    /\ running /\ ~cancelled
    /\ cancelled' = TRUE
    /\ UNCHANGED stepVars
    /\ UNCHANGED <<cfg, fs, mBatchItems, oldItems, mResList, running, finishedSig,
                   started, pc, loc, pre, futStale, callerPc, runs, faults>>

isComputing == running

getNumItems == Len(mBatchItems)

\* the loop of getNumFailures() from index idx on
RECURSIVE numFailures(_, _)
numFailures(items, idx) ==
    IF idx > Len(items) THEN 0
    ELSE (IF hasFailed(items[idx]) THEN 1 ELSE 0) + numFailures(items, idx + 1)

getNumFailures == numFailures(mBatchItems, 1)

\* the loop of getNumProcessed() from index idx on
RECURSIVE numProcessed(_, _)
numProcessed(items, idx) ==
    IF idx > Len(items) THEN 0
    ELSE (IF wasProcessed(items[idx]) THEN 1 ELSE 0) + numProcessed(items, idx + 1)

getNumProcessed == numProcessed(mBatchItems, 1)

\* getBatchSummary with the tags exchanged
getBatchSummary_TagsExchanged(idx, batch) ==
    <<InPath(idx), IF ~hasFailed(batch) THEN "[FAIL]" ELSE "[OK]">>

\* getBatchSummary(): the input file and the tag (the markup is left out)
getBatchSummary(idx, batch) ==
    <<InPath(idx), IF ~hasFailed(batch) THEN "[OK]" ELSE "[FAIL]">>

\* the loop of getResultList() from index idx on, results being the list so far
RECURSIVE resultList(_, _, _)
resultList(items, idx, results) ==
    IF idx > Len(items) THEN results
    ELSE resultList(items, idx + 1,
                    IF wasProcessed(items[idx])
                    THEN Append(results, getBatchSummary(idx, items[idx]))
                    ELSE results)

getResultList == resultList(mBatchItems, 1, <<>>)

\* the loop body without "if (mResList.at(idx) != batch_item_not_computed)
\* continue"
CurrentResult_Reclassifies(res, item) ==
    IF wasProcessed(item)
    THEN (IF hasFailed(item) THEN batch_item_failed ELSE batch_item_succeeded)
    ELSE res

\* getCurrentResults(), the body of the loop for one index
CurrentResult(res, item) ==
    IF res # batch_item_not_computed THEN res
    ELSE IF wasProcessed(item)
    THEN (IF hasFailed(item) THEN batch_item_failed ELSE batch_item_succeeded)
    ELSE res

\* getCurrentResults()
getCurrentResults ==
    /\ callerPc = "idle"
    /\ LET l0 == IF mResList = <<>>
                 THEN [idx \in DOMAIN mBatchItems |-> batch_item_not_computed]
                 ELSE mResList
       IN  mResList' = [idx \in DOMAIN l0 |-> CurrentResult(l0[idx], mBatchItems[idx])]
    /\ UNCHANGED stepVars
    /\ UNCHANGED <<cfg, fs, mBatchItems, oldItems, running, cancelled, finishedSig,
                   started, pc, loc, pre, futStale, callerPc, runs, faults>>

\* ------------------------------------------------------------------ images
\* a QImage: its size and the operations that made it from the loaded file
NullImage == [w |-> 0, h |-> 0, ops |-> <<>>]

\* QImage::isNull()
isNull(img) == img.w = 0

\* the image loadImage() reads from a file of w x h pixels
Loaded(w, h) == [w |-> w, h |-> h, ops |-> <<>>]

\* a float that is the quotient of two small integers
Quot(n, d) == [num |-> n, den |-> d]
One == Quot(1, 1)

\* qRound() of the quotient num / den (both positive)
qRound(num, den) == (2 * num + den) \div (2 * den)

\* QSize(): the default constructed, invalid size
NoSize == [w |-> -1, h |-> -1]

\* QSize::transpose()
transpose(size) == [w |-> size.h, h |-> size.w]

\* ---------------------------------------------------------- DkResizeBatch
\* DkResizeBatch::prepareProperties(): the returned bool, size and
\* scaleFactor (the two reference parameters keep the values compute() gave
\* them unless a branch assigns them)
prepareProperties(imgSize, step) ==
    LET normalizedSize ==
            CASE step.mMode = mode_long_side ->
                     IF imgSize.w < imgSize.h THEN transpose(imgSize) ELSE imgSize
              [] step.mMode = mode_short_side ->
                     IF imgSize.w > imgSize.h THEN transpose(imgSize) ELSE imgSize
              [] step.mMode = mode_height -> transpose(imgSize)
              [] OTHER -> imgSize
        \* sf = mScaleFactor / normalizedSize.width()
        sf == Quot(step.mScaleFactor.num, step.mScaleFactor.den * normalizedSize.w)
        size == [w |-> qRound(step.mScaleFactor.num, step.mScaleFactor.den),
                 h |-> qRound(sf.num * normalizedSize.h, sf.den)]
    IN  IF step.mMode = mode_default
        THEN [ok |-> TRUE, size |-> NoSize, scaleFactor |-> step.mScaleFactor]
        ELSE IF sf.num > sf.den /\ step.mProperty = prop_decrease_only
        THEN [ok |-> FALSE, size |-> NoSize, scaleFactor |-> One]
        ELSE IF sf.num < sf.den /\ step.mProperty = prop_increase_only
        THEN [ok |-> FALSE, size |-> NoSize, scaleFactor |-> One]
        ELSE IF sf.num = sf.den
        THEN [ok |-> FALSE, size |-> NoSize, scaleFactor |-> One]
        ELSE [ok |-> TRUE,
              size |-> IF normalizedSize # imgSize THEN transpose(size) ELSE size,
              scaleFactor |-> One]

\* DkImage::resizeImage(img, size, sf, ...): the image scaled by sf when sf is
\* not 1 and to size otherwise; a null image when the library fails (ok is
\* false) or the new size has no pixels
resizeImage(img, size, sf, ok) ==
    LET nSize == IF sf.num # sf.den
                 THEN [w |-> qRound(img.w * sf.num, sf.den),
                       h |-> qRound(img.h * sf.num, sf.den)]
                 ELSE size
    IN  IF ~ok \/ nSize.w < 1 \/ nSize.h < 1
        THEN NullImage
        ELSE [w |-> nSize.w, h |-> nSize.h, ops |-> Append(img.ops, "resize")]

\* DkResizeBatch::compute(QImage&, ...): the returned bool and the image the
\* reference holds afterwards
resizeCompute(img, step, ok) ==
    IF step.mScaleFactor.num = step.mScaleFactor.den
    THEN [isOk |-> TRUE, img |-> img]
    ELSE LET p == prepareProperties([w |-> img.w, h |-> img.h], step)
             tmpImg == resizeImage(img, p.size, p.scaleFactor, ok)
         IN  IF ~p.ok THEN [isOk |-> TRUE, img |-> img]
             ELSE IF isNull(tmpImg) THEN [isOk |-> FALSE, img |-> img]
             ELSE [isOk |-> TRUE, img |-> tmpImg]

\* DkAbstractBatch::compute(container, ...): the container after the step's
\* compute(QImage&, ...) returned r
containerCompute(container, r) ==
    IF r.isOk THEN [container EXCEPT !.image = r.img] ELSE container

\* --------------------------------------------- process() on the image
\* the items of the step-level behaviours
NewProc(img, crop) ==
    [pos |-> "chain", k |-> 1, imgC |-> [image |-> img, cropRect |-> crop],
     mInfos |-> <<>>, mFailure |-> 0, out |-> NullImage]

NoLast == [given |-> NullImage, made |-> NullImage, isOk |-> TRUE, calls |-> <<>>]

\* the step the loop of process() is at
Step(i) == mProcessFunctions[proc[i].k]

AtStep(i, type) ==
    /\ i \in DOMAIN proc
    /\ proc[i].pos = "chain"
    /\ proc[i].k \in DOMAIN mProcessFunctions
    /\ Step(i).type = type

\* process(): the body of the loop after batch->compute() returned isOk, left
\* cInfos and the container c: count the failure, mInfos << cInfos, next step
loopStep(i, isOk, cInfos, c) ==
    proc' = [proc EXCEPT ![i].imgC = c,
                         ![i].mInfos = @ \o cInfos,
                         ![i].mFailure = IF isOk THEN @ ELSE @ + 1,
                         ![i].k = IF @ < Len(mProcessFunctions) THEN @ + 1 ELSE @,
                         ![i].pos = IF proc[i].k < Len(mProcessFunctions)
                                    THEN "chain" ELSE "save"]

\* process(): one iteration of the loop, the step is a DkResizeBatch
resizeStep(i) ==
    /\ AtStep(i, "resize")
    /\ \E ok \in Env :
         LET Run(o) == resizeCompute(proc[i].imgC.image, Step(i), o)
             r == Run(ok)
         IN  /\ ok \/ r # Run(TRUE)
             /\ Spend(ok)
             /\ loopStep(i, r.isOk, <<>>, containerCompute(proc[i].imgC, r))
             /\ last' = [last EXCEPT ![i] = [given |-> proc[i].imgC.image,
                                             made |-> r.img,
                                             isOk |-> r.isOk,
                                             calls |-> <<>>]]
    /\ UNCHANGED <<fileVars, mProcessFunctions, delivered>>

\* ------------------------------------------------------- DkBatchTransform
\* DkBatchTransform::isActive()
transformIsActive(step) ==
    step.mHorizontalFlip \/ step.mVerticalFlip \/ step.mAngle # 0
        \/ step.mCropFromMetadata

\* container->cropImage(rect, ...): the container holds the cropped image
cropImage(container) ==
    [container EXCEPT !.image.ops = Append(@, "crop")]

\* QImage::transformed() with a rotation by a multiple of 90 degrees; a null
\* image when the library fails (ok is false) or the image is null
transformed(img, mAngle, ok) ==
    IF ~ok \/ isNull(img) THEN NullImage
    ELSE [w |-> IF mAngle % 180 = 0 THEN img.w ELSE img.h,
          h |-> IF mAngle % 180 = 0 THEN img.h ELSE img.w,
          ops |-> Append(img.ops, "rotate")]

\* QImage::mirrored(horizontal, vertical)
mirrored(img, horizontal, vertical, ok) ==
    IF ~ok \/ isNull(img) THEN NullImage
    ELSE IF horizontal \/ vertical THEN [img EXCEPT !.ops = Append(@, "mirror")]
    ELSE img

\* DkBatchTransform::compute(container, ...): the returned bool, the
\* container afterwards, and the image the local img holds at the end
transformCompute(container, step, ok) ==
    IF ~transformIsActive(step)
    THEN [isOk |-> TRUE, container |-> container, img |-> container.image]
    ELSE LET cropped == IF step.mCropFromMetadata /\ container.cropRect
                        THEN cropImage(container) ELSE container
             img == cropped.image
             rotated == IF step.mAngle # 0 THEN transformed(img, step.mAngle, ok)
                        ELSE img
             tmpImg == mirrored(rotated, step.mHorizontalFlip, step.mVerticalFlip, ok)
         IN  IF ~isNull(tmpImg)
             THEN [isOk |-> TRUE, container |-> cropped, img |-> tmpImg]
             ELSE [isOk |-> FALSE, container |-> cropped, img |-> img]

\* process(): one iteration of the loop, the step is a DkBatchTransform
transformStep(i) ==
    /\ AtStep(i, "transform")
    /\ \E ok \in Env :
         LET Run(o) == transformCompute(proc[i].imgC, Step(i), o)
             r == Run(ok)
         IN  /\ ok \/ r # Run(TRUE)
             /\ Spend(ok)
             /\ loopStep(i, r.isOk, <<>>, r.container)
             /\ last' = [last EXCEPT ![i] = [given |-> proc[i].imgC.image,
                                             made |-> r.img,
                                             isOk |-> r.isOk,
                                             calls |-> <<>>]]
    /\ UNCHANGED <<fileVars, mProcessFunctions, delivered>>

\* ---------------------------------------------------------- DkPluginBatch
\* DkPluginInterface::interfaceType(); interface_other is every type that is
\* neither interface_basic nor interface_batch
interface_basic == "interface_basic"
interface_batch == "interface_batch"
interface_other == "interface_other"

\* an entry of mPlugins with its entry of mRunIDs: the container is null
\* (loadPlugin() found no plugin), or it answers plugin(), interfaceType()
\* and batchPlugin()
NullPlugin ==
    [container |-> FALSE, plugin |-> FALSE, interfaceType |-> interface_other,
     batchPlugin |-> FALSE, runID |-> ""]
Plugin(hasPlugin, type, hasBatch, runID) ==
    [container |-> TRUE, plugin |-> hasPlugin, interfaceType |-> type,
     batchPlugin |-> hasBatch, runID |-> runID]

\* the DkBatchInfo a batch plugin leaves for item i: tagged with the run id
\* it was called with; no info is a null pointer
NullInfo == [id |-> "", item |-> 0, k |-> 0, idx |-> 0]
Info(runID, i, k, idx) == [id |-> runID, item |-> i, k |-> k, idx |-> idx]

\* what a plugin does with the container it is given: it changes the image
\* in place and returns the container ("same"), returns another container
\* with the new image ("new"), returns nothing usable ("none"), or leaves the
\* container it got without an image ("cleared"); a batch plugin sets info
\* or leaves it null
PluginOutcomes == [res : {"same", "new", "none", "cleared"}, info : BOOLEAN]
Works == [res |-> "same", info |-> TRUE]

\* the image a plugin makes of img
plugged(img, runID) ==
    IF isNull(img) THEN img ELSE [img EXCEPT !.ops = Append(@, runID)]

\* DkPluginBatch::isActive()
pluginIsActive(step) == step.mPlugins # <<>>

\* the plugin of entry pl is called by compute()
isRun(pl) ==
    /\ pl.container /\ pl.plugin
    /\ \/ pl.interfaceType = interface_basic
       \/ pl.interfaceType = interface_batch /\ pl.batchPlugin

\* the loop of DkPluginBatch::compute() that ends at the first plugin that
\* returns no image
RECURSIVE pluginLoop_EndsAtFailure(_, _, _, _, _, _)
pluginLoop_EndsAtFailure(step, outs, i, k, idx, st) ==
    IF idx > Len(step.mPlugins) THEN st
    ELSE LET pl == step.mPlugins[idx]
             o == outs[idx]
             made == plugged(st.container, pl.runID)
             inPlace == IF ~isRun(pl) THEN st.container
                        ELSE IF o.res = "same" THEN made
                        ELSE IF o.res = "cleared" THEN NullImage
                        ELSE st.container
             adopted == isRun(pl) /\ o.res = "new" /\ ~isNull(made)
             ranBatch == pl.container /\ pl.plugin
                            /\ pl.interfaceType = interface_batch
             info == IF pl.batchPlugin /\ o.info
                     THEN Info(pl.runID, i, k, idx) ELSE NullInfo
             next ==
                 [imgC |-> IF st.own THEN [st.imgC EXCEPT !.image = inPlace]
                           ELSE st.imgC,
                  container |-> IF adopted THEN made ELSE inPlace,
                  own |-> st.own /\ ~adopted,
                  batchInfos |-> IF ranBatch THEN Append(st.batchInfos, info)
                                 ELSE st.batchInfos,
                  calls |-> IF isRun(pl) THEN Append(st.calls, idx) ELSE st.calls]
         IN  IF isRun(pl) /\ o.res \in {"none", "cleared"} THEN next
             ELSE pluginLoop_EndsAtFailure(step, outs, i, k, idx + 1, next)

\* DkPluginBatch::compute(), the loop from entry idx on.  st holds imgC (the
\* container of the caller), container (the image of the container the
\* parameter points to), own (the parameter still points to imgC),
\* batchInfos and the entries whose plugin was run
RECURSIVE pluginLoop(_, _, _, _, _, _)
pluginLoop(step, outs, i, k, idx, st) ==
    IF idx > Len(step.mPlugins) THEN st
    ELSE LET pl == step.mPlugins[idx]
             o == outs[idx]
             made == plugged(st.container, pl.runID)
             inPlace == IF ~isRun(pl) THEN st.container
                        ELSE IF o.res = "same" THEN made
                        ELSE IF o.res = "cleared" THEN NullImage
                        ELSE st.container
             \* result && result->hasImage(), and result is another container
             adopted == isRun(pl) /\ o.res = "new" /\ ~isNull(made)
             ranBatch == pl.container /\ pl.plugin
                            /\ pl.interfaceType = interface_batch
             info == IF pl.batchPlugin /\ o.info
                     THEN Info(pl.runID, i, k, idx) ELSE NullInfo
             next ==
                 [imgC |-> IF st.own THEN [st.imgC EXCEPT !.image = inPlace]
                           ELSE st.imgC,
                  container |-> IF adopted THEN made ELSE inPlace,
                  own |-> st.own /\ ~adopted,
                  batchInfos |-> IF ranBatch THEN Append(st.batchInfos, info)
                                 ELSE st.batchInfos,
                  calls |-> IF isRun(pl) THEN Append(st.calls, idx) ELSE st.calls]
         IN  pluginLoop(step, outs, i, k, idx + 1, next)

\* DkPluginBatch::compute(container, logStrings, batchInfos): the returned
\* bool, imgC afterwards, batchInfos, the image the parameter points to at
\* the end, and the entries whose plugin was run
pluginCompute(imgC, step, outs, i, k) ==
    IF ~pluginIsActive(step)
    THEN [isOk |-> TRUE, imgC |-> imgC, batchInfos |-> <<>>,
          img |-> imgC.image, calls |-> <<>>]
    ELSE LET st == pluginLoop(step, outs, i, k, 1,
                              [imgC |-> imgC, container |-> imgC.image,
                               own |-> TRUE, batchInfos |-> <<>>, calls |-> <<>>])
         IN  [isOk |-> ~isNull(st.container), imgC |-> st.imgC,
              batchInfos |-> st.batchInfos, img |-> st.container,
              calls |-> st.calls]

\* the number of plugins of the step that do not simply work
Deviations(step, outs) ==
    Cardinality({idx \in DOMAIN outs : outs[idx] # Works})

\* process(): one iteration of the loop, the step is a DkPluginBatch
pluginStep(i) ==
    /\ AtStep(i, "plugin")
    /\ \E outs \in [DOMAIN Step(i).mPlugins -> PluginOutcomes] :
         LET r == pluginCompute(proc[i].imgC, Step(i), outs, i, proc[i].k)
         IN  /\ \A idx \in DOMAIN outs :
                    /\ ~isRun(Step(i).mPlugins[idx]) => outs[idx] = Works
                    /\ Step(i).mPlugins[idx].interfaceType # interface_batch
                           => outs[idx].info
             /\ faults + Deviations(Step(i), outs) <= MaxFaults
             /\ faults' = faults + Deviations(Step(i), outs)
             /\ loopStep(i, r.isOk, r.batchInfos, r.imgC)
             /\ last' = [last EXCEPT ![i] = [given |-> proc[i].imgC.image,
                                             made |-> r.img,
                                             isOk |-> r.isOk,
                                             calls |-> r.calls]]
    /\ UNCHANGED <<fileVars, mProcessFunctions, delivered>>

\* postLoadPlugin() is not called for an entry
NotCalled == <<"none">>

\* DkBatchInfo::filter(): the infos with the id runID, in their order
filter(batchInfo, runID) ==
    SelectSeq(batchInfo, LAMBDA info : info # NullInfo /\ info.id = runID)

\* postLoad() of a plugin step that hands every batch plugin all the infos
pluginPostLoad_Unfiltered(step, batchInfo) ==
    [idx \in DOMAIN step.mPlugins |->
        IF step.mPlugins[idx].container /\ step.mPlugins[idx].batchPlugin
        THEN batchInfo
        ELSE NotCalled]

\* DkPluginBatch::postLoad(batchInfo): what each entry of mPlugins is handed
pluginPostLoad(step, batchInfo) ==
    [idx \in DOMAIN step.mPlugins |->
        IF step.mPlugins[idx].container /\ step.mPlugins[idx].batchPlugin
        THEN filter(batchInfo, step.mPlugins[idx].runID)
        ELSE NotCalled]

\* ------------------------------- process() after the loop, and postLoad()
\* process(): imgC->saveImage(mFilePathOut, mCompression) on the image of
\* the container
saveStep(i) ==
    /\ i \in DOMAIN proc /\ proc[i].pos = "save"
    /\ \E ok \in Env :
         LET saved == ok /\ ~isNull(proc[i].imgC.image)
         IN  /\ ok \/ ~isNull(proc[i].imgC.image)
             /\ Spend(ok)
             /\ proc' = [proc EXCEPT ![i].pos = "done",
                                     ![i].out = IF saved THEN proc[i].imgC.image
                                                ELSE @,
                                     ![i].mFailure = IF saved THEN @ ELSE @ + 1]
    /\ UNCHANGED <<fileVars, mProcessFunctions, last, delivered>>

\* DkBatchProcessing::postLoad(), the first loop: batchInfo << batch.batchInfo()
\* for the items from index idx on
RECURSIVE collect(_, _)
collect(items, idx) ==
    IF idx > Len(items) THEN <<>>
    ELSE items[idx].mInfos \o collect(items, idx + 1)

\* DkBatchProcessing::postLoad(), called when every item is through: each
\* step is handed the collected infos
postLoad ==
    /\ proc # <<>> /\ delivered = <<>>
    /\ \A i \in DOMAIN proc : proc[i].pos = "done"
    /\ LET batchInfo == collect(proc, 1)
       IN  delivered' =
               [k \in DOMAIN mProcessFunctions |->
                   [batchInfo |-> batchInfo,
                    plugins |-> IF mProcessFunctions[k].type = "plugin"
                                THEN pluginPostLoad(mProcessFunctions[k], batchInfo)
                                ELSE <<>>]]
    /\ UNCHANGED <<fileVars, faults, mProcessFunctions, proc, last>>

\* ------------------------------------------------------------ behaviours
Configs(n) == [n : {n},
               mode : {mode_skip_existing, mode_overwrite},
               deleteOriginal : BOOLEAN,
               nSteps : 0..MaxSteps,
               kind : [1..n -> Kinds]]

\* the files the run finds: each input and each output is there or not
InitialFiles ==
    {f \in [Paths -> {None} \cup {InContent(i) : i \in Idx}
                            \cup {OldContent(i) : i \in Idx}] :
        /\ \A i \in Idx : f[InPath(i)] \in {None, InContent(i)}
        /\ \A i \in Idx : f[<<"out", i, 0>>] \in {None, OldContent(i)}
        /\ \A i \in Idx, r \in 1..MaxRuns : f[BackupName(i, r)] = None}

\* the state after the DkBatchProcessing constructor, for a configuration c
Start(c) ==
    /\ cfg = c
    /\ fs \in InitialFiles
    /\ \A i \in Idx : cfg.kind[i] = "same_path" => fs[<<"out", i, 0>>] = None
    /\ mBatchItems = <<>>
    /\ oldItems = <<>>
    /\ mResList = <<>>
    /\ running = FALSE
    /\ cancelled = FALSE
    /\ finishedSig = FALSE
    /\ started = {}
    /\ pc = [i \in Idx |-> "idle"]
    /\ loc = [i \in Idx |-> NewLoc]
    /\ pre = [i \in Idx |-> NoPre]
    /\ futStale = "no"
    /\ callerPc = "idle"
    /\ runs = 0
    /\ faults = 0
    /\ mProcessFunctions = <<>>
    /\ proc = <<>>
    /\ last = <<>>
    /\ delivered = <<>>

\* one file, every configuration
InitItem == \E c \in Configs(1) : Start(c)

\* the configurations of a run of n files: the first file is processed
\* (another suffix); the others are processed too when there is a chain, and
\* copied (same suffix, the original deleted afterwards) when there is none
RunConfigs(n) ==
    {c \in Configs(n) :
        /\ c.nSteps \in {0, 1}
        /\ c.deleteOriginal = (c.nSteps = 0)
        /\ c.kind[1] = "other_suffix"
        /\ \A i \in 2..n : c.kind[i] = IF c.nSteps = 0 THEN "same_suffix"
                                                      ELSE "other_suffix"}

\* MaxItems files; the first is there and has no output yet, the others are
\* in any condition
Init ==
    \E c \in RunConfigs(MaxItems) :
        /\ Start(c)
        /\ fs[InPath(1)] # None /\ fs[OutPath(1)] = None

\* as Init, with every input there and no output yet
InitFair == Init /\ \A i \in Idx : fs[InPath(i)] # None /\ fs[OutPath(i)] = None

Worker(i) ==
    \/ computeItem(i)
    \/ compute(i)
    \/ renameOrCopy(i)
    \/ deleteOriginalFile(i)
    \/ loadImage(i)
    \/ batchCompute(i)
    \/ prepare(i)
    \/ saveImage(i)
    \/ finalize(i)

Next ==
    \/ computeInit
    \/ computeDispatch
    \/ futureFinished
    \/ cancel
    \/ getCurrentResults
    \/ \E i \in Idx : Worker(i)

Spec == Init /\ [][Next]_vars

SpecItem == InitItem /\ [][Next]_vars

\* the threads of the pool run, the future reports, and a caller inside
\* compute() goes on when waitForFinished() returns; nobody has to call
\* compute(), cancel() or getCurrentResults()
Fairness ==
    /\ \A i \in 1..MaxItems : WF_vars(i \in Idx /\ Worker(i))
    /\ WF_vars(futureFinished)
    /\ WF_vars(computeDispatch)

FairSpec == InitFair /\ [][Next]_vars /\ Fairness

\* ----------------------------------------------- behaviours of the steps
\* the files and the runner rest while n items are followed through process()
Resting(n) ==
    /\ cfg = [n |-> n, mode |-> mode_overwrite, deleteOriginal |-> FALSE,
              nSteps |-> 0, kind |-> [i \in 1..n |-> "other_suffix"]]
    /\ fs = [p \in Paths |-> None]
    /\ mBatchItems = [i \in 1..n |-> NewItem]
    /\ oldItems = <<>>
    /\ mResList = <<>>
    /\ running = FALSE
    /\ cancelled = FALSE
    /\ finishedSig = FALSE
    /\ started = {}
    /\ pc = [i \in 1..n |-> "idle"]
    /\ loc = [i \in 1..n |-> NewLoc]
    /\ pre = [i \in 1..n |-> NoPre]
    /\ futStale = "no"
    /\ callerPc = "idle"
    /\ runs = 0

\* the values of mScaleFactor: a half, and every whole number of pixels up to
\* MaxSide + 1
ScaleFactors == {Quot(1, 2)} \cup {Quot(n, 1) : n \in 1..(MaxSide + 1)}

\* DkResizeBatch after setProperties()
ResizeSteps ==
    [type : {"resize"},
     mScaleFactor : ScaleFactors,
     mMode : {mode_default, mode_long_side, mode_short_side, mode_height, mode_width},
     mProperty : {prop_default, prop_decrease_only, prop_increase_only}]

\* the images of at most MaxSide x MaxSide pixels
Images == {Loaded(w, h) : w \in 1..MaxSide, h \in 1..MaxSide}

\* one image, one resize step with any properties
InitResize ==
    /\ Resting(1)
    /\ faults = 0
    /\ mProcessFunctions \in {<<step>> : step \in ResizeSteps}
    /\ proc \in {<<NewProc(img, FALSE)>> : img \in Images}
    /\ last = <<NoLast>>
    /\ delivered = <<>>

NextResize == \E i \in DOMAIN proc : resizeStep(i)

SpecResize == InitResize /\ [][NextResize]_vars

\* DkBatchTransform after setProperties(): a rotation, a flip, a crop, nothing
TransformSteps ==
    {[type |-> "transform", mAngle |-> a, mHorizontalFlip |-> f,
      mVerticalFlip |-> FALSE, mCropFromMetadata |-> c] :
        a \in {0, 90}, f \in BOOLEAN, c \in BOOLEAN}

\* the entries loadAllPlugins() can leave in mPlugins and mRunIDs
Plugins ==
    {NullPlugin,
     Plugin(FALSE, interface_other, FALSE, "a"),
     Plugin(TRUE, interface_other, FALSE, "a"),
     Plugin(TRUE, interface_basic, FALSE, "a"),
     Plugin(TRUE, interface_batch, FALSE, "a"),
     Plugin(TRUE, interface_batch, TRUE, "a"),
     Plugin(TRUE, interface_batch, TRUE, "b")}

\* the sequences of at most n elements of S
RECURSIVE Lists(_, _)
Lists(S, n) ==
    IF n = 0 THEN {<<>>}
    ELSE LET shorter == Lists(S, n - 1)
         IN  shorter \cup {Append(l, x) : l \in {m \in shorter : Len(m) = n - 1},
                                          x \in S}

\* DkPluginBatch after preLoad(), n plugins at most
PluginSteps(n) ==
    {[type |-> "plugin", mPlugins |-> l] : l \in Lists(Plugins, n)}

\* the steps of the chains of two and more steps: a resize to the half and
\* one by 1, the transforms, the plugin steps of one plugin or none
ShortSteps ==
    {step \in ResizeSteps : /\ step.mMode = mode_default
                            /\ step.mProperty = prop_default
                            /\ step.mScaleFactor \in {Quot(1, 2), One}}
        \cup TransformSteps \cup PluginSteps(1)

\* DkBatchConfig::getProcessFunctions(): one step of any kind with up to
\* MaxPlugins plugins, or up to MaxSteps of the short steps
Chains ==
    {<<step>> : step \in PluginSteps(MaxPlugins)}
        \cup (Lists(ShortSteps, MaxSteps) \ {<<>>})

\* MaxItems images after loadImage(), each of 2 x MaxSide pixels, with or
\* without a crop rectangle in the metadata
InitChain ==
    /\ Resting(MaxItems)
    /\ faults = 0
    /\ mProcessFunctions \in Chains
    /\ \E crop \in BOOLEAN :
         proc = [i \in 1..MaxItems |-> NewProc(Loaded(2, MaxSide), crop)]
    /\ last = [i \in 1..MaxItems |-> NoLast]
    /\ delivered = <<>>

NextChain ==
    \/ \E i \in DOMAIN proc : resizeStep(i)
    \/ \E i \in DOMAIN proc : transformStep(i)
    \/ \E i \in DOMAIN proc : pluginStep(i)
    \/ \E i \in DOMAIN proc : saveStep(i)
    \/ postLoad

SpecChain == InitChain /\ [][NextChain]_vars

\* ------------------------------------------------------------------ claims
\* compute() of item i has been called in the run that is being watched, and
\* the item is owned by that call: no later compute() of the runner has
\* replaced the list under the worker
Live(i) == callerPc = "idle" /\ futStale = "no" /\ i \in started

\* the worker of item i takes a step
Steps(i) == pc'[i] # pc[i] \/ loc'[i] # loc[i]

\* the back-up path recorded in item i
BackupPath(i) == mBatchItems[i].mBackupFilePath

\* C1: an item whose output exists when compute() is called, in mode
\* skip-existing: compute() returns at once, hasFailed() and wasProcessed()
\* are true and no file was created, renamed, overwritten or deleted; the
\* recorded back-up path is as it was.
C1_SkipExisting ==
    [][\A i \in Idx :
         (Live(i) /\ pc[i] = "check" /\ Steps(i)
            /\ pre[i].out # None /\ cfg.mode = mode_skip_existing)
         => /\ pc'[i] = "done"
            /\ hasFailed(mBatchItems'[i])
            /\ wasProcessed(mBatchItems'[i])
            /\ fs' = fs
            /\ BackupPath(i)' = BackupPath(i)]_vars

C1_Witness ==
    \E i \in Idx :
        /\ Live(i) /\ pc[i] = "done"
        /\ pre[i].out # None /\ cfg.mode = mode_skip_existing
        /\ hasFailed(mBatchItems[i]) /\ wasProcessed(mBatchItems[i])
        /\ fs[OutPath(i)] = pre[i].out

\* the output O of item i existed when compute() was called, in overwrite
\* mode
Overwrites(i) == Live(i) /\ cfg.mode = mode_overwrite /\ pre[i].out # None

\* C2: overwrite mode, output O exists: in every state of process() and after
\* it the original content of O is at the output path or at the recorded
\* back-up path, unless the save of the new content has succeeded.
C2_OriginalNeverLost ==
    \A i \in Idx :
        Overwrites(i)
        => \/ fs[OutPath(i)] = pre[i].out
           \/ loc[i].backup /\ fs[BackupPath(i)] = pre[i].out
           \/ loc[i].saved /\ fs[OutPath(i)] = NewContent(runs)

\* C3: prepare (O renamed aside), a failed save, finalize: the output path
\* holds O's original content again and no back-up file remains.  A restore
\* that the file system refuses is not held against the statement: then the
\* back-up must still hold O's original content and the item has failed.
C3_RestoredAfterFailedSave ==
    \A i \in Idx :
        (Overwrites(i) /\ pc[i] = "done" /\ loc[i].backup /\ ~loc[i].saved)
        => \/ /\ fs[OutPath(i)] = pre[i].out
              /\ fs[BackupPath(i)] = None
           \/ /\ fs[OutPath(i)] = None
              /\ fs[BackupPath(i)] = pre[i].out
              /\ hasFailed(mBatchItems[i])

\* C4 as stated: prepare, a successful save, finalize: the output path holds
\* the newly saved content and the back-up file no longer exists.
C4_BackupGoneAfterSave ==
    \A i \in Idx :
        (Overwrites(i) /\ pc[i] = "done" /\ loc[i].backup /\ loc[i].saved)
        => /\ fs[OutPath(i)] = NewContent(runs)
           /\ fs[BackupPath(i)] = None

\* C4 as amended: prepare, a successful save, finalize: the output path holds
\* the newly saved content; the back-up file no longer exists, or its removal
\* failed, and then it still holds O's original content and the item has
\* failed.
C4_SavedAndBackupResolved ==
    \A i \in Idx :
        (Overwrites(i) /\ pc[i] = "done" /\ loc[i].backup /\ loc[i].saved)
        => /\ fs[OutPath(i)] = NewContent(runs)
           /\ \/ fs[BackupPath(i)] = None
              \/ /\ fs[BackupPath(i)] = pre[i].out
                 /\ hasFailed(mBatchItems[i])

C4_Witness ==
    \E i \in Idx :
        /\ Overwrites(i) /\ pc[i] = "done" /\ loc[i].backup /\ loc[i].saved
        /\ fs[OutPath(i)] = NewContent(runs)
        /\ fs[BackupPath(i)] = None
        /\ ~hasFailed(mBatchItems[i])

\* C5: an item whose input does not exist when compute() is called: a failure
\* is recorded, no back-up is taken and no file is written, renamed or deleted.
\* This holds for every worker, also for one whose list a later compute() of
\* the runner has replaced.
C5_InputMissing ==
    [][\A i \in Idx :
         (WorkerOn(i) /\ pc[i] = "check" /\ Steps(i) /\ pre[i].in = None)
         => /\ pc'[i] = "done"
            /\ hasFailed(Mem(i)')
            /\ fs' = fs
            /\ ~loc'[i].backup
            /\ Mem(i)'.mBackupFilePath = Mem(i).mBackupFilePath]_vars

C5_Witness ==
    \E i \in Idx :
        /\ Live(i) /\ pc[i] = "done" /\ pre[i].in = None
        /\ ~(pre[i].out # None /\ cfg.mode = mode_skip_existing)
        /\ hasFailed(mBatchItems[i]) /\ fs[OutPath(i)] = pre[i].out

\* a worker of the watched run is inside compute() of item i
InFlight(i) == running /\ i \in started /\ pc[i] # "done"

\* init() replaces the item list
ListReplaced == callerPc = "idle" /\ callerPc' = "wait"

\* C6: compute() first waits until every worker of the previous run has
\* finished and only then discards the items: the list is never cleared or
\* replaced while a worker still executes an item.
C6_WaitBeforeDiscard ==
    [][ListReplaced => \A i \in Idx : ~InFlight(i)]_vars

\* C7: within a run compute() is entered at most once per item, and while it
\* is in flight the item changes only by steps of its own worker.
C7_ExclusiveOwnership ==
    [][\A i \in Idx :
         /\ (runs' = runs /\ i \in started) => ~(pc[i] # "check" /\ pc'[i] = "check")
         /\ (InFlight(i) /\ mBatchItems'[i] # mBatchItems[i]) => Steps(i)]_vars

\* item i was never handed to a worker
Untouched(i) == ~wasProcessed(mBatchItems[i])

C8_NoDispatchAfterCancel ==
    [][(cancelled /\ cancelled') => started' \subseteq started]_vars

\* C8, the part about termination: after cancel() the run ends
C8_CancelTerminates == cancelled ~> ~isComputing

\* the run with number r is over with every item computed
RunComplete(r) ==
    /\ runs = r
    /\ ~isComputing
    /\ finishedSig
    /\ \A i \in Idx : pc[i] = "done"
    /\ getNumProcessed = getNumItems

\* C9: a run that is not cancelled finishes with every item computed
\* (finished(), isComputing() false, getNumProcessed() = number of items),
\* whatever failures the items record.
C9_RunCompletes ==
    \A r \in 1..MaxRuns :
        (runs = r /\ isComputing) ~> ((runs = r /\ cancelled) \/ RunComplete(r))

\* C10: once getCurrentResults() has reported an index as succeeded or
\* failed, every later call reports the same for that index.
C10_ResultsStable ==
    [][\A idx \in DOMAIN mResList :
         mResList[idx] # batch_item_not_computed
         => idx \in DOMAIN mResList' /\ mResList'[idx] = mResList[idx]]_vars

\* an index is reported as succeeded although the item at that index has
\* failed since: the earlier classification was kept
C10_Witness ==
    \E idx \in DOMAIN mResList :
        /\ callerPc = "idle"
        /\ mResList[idx] = batch_item_succeeded
        /\ hasFailed(mBatchItems[idx])

C12_RenameAttempted ==
    [][\A i \in Idx :
         (Live(i) /\ pc[i] = "check" /\ Steps(i)
            /\ cfg.nSteps = 0 /\ cfg.kind[i] = "same_path"
            /\ fs[InPath(i)] # None /\ cfg.mode # mode_skip_existing)
         => pc'[i] = "rename"]_vars

\* C12 as amended: such an item is stopped by the check "nothing to do":
\* compute() counts one failure and returns, no file is changed and renameFile()
\* is not called - no item ever reaches the rename.
C12_NothingToDo ==
    [][\A i \in Idx :
         /\ (Live(i) /\ pc[i] = "check" /\ Steps(i)
               /\ cfg.nSteps = 0 /\ cfg.kind[i] = "same_path"
               /\ fs[InPath(i)] # None /\ cfg.mode # mode_skip_existing)
            => /\ pc'[i] = "done"
               /\ mBatchItems'[i].mFailure = mBatchItems[i].mFailure + 1
               /\ fs' = fs
         /\ pc'[i] # "rename"]_vars

C12_Witness ==
    \E i \in Idx :
        /\ Live(i) /\ pc[i] = "done"
        /\ cfg.nSteps = 0 /\ cfg.kind[i] = "same_path"
        /\ pre[i].in # None /\ cfg.mode = mode_overwrite
        /\ mBatchItems[i].mFailure = 1
        /\ fs[InPath(i)] = pre[i].in

\* the input of item i was copied to the output and then deleted
CopiedAndDeleted(i) ==
    /\ cfg.nSteps = 0 /\ cfg.kind[i] = "same_suffix" /\ cfg.deleteOriginal
    /\ fs[OutPath(i)] = pre[i].in
    /\ ~hasFailed(mBatchItems[i])

\* C13 as stated: the input is deleted only on the copy path, after the copy
\* succeeded, with the flag set, the paths different and no failure counted;
\* in every other case the input file still exists after compute().
C13_InputKept ==
    \A i \in Idx :
        (Live(i) /\ pc[i] = "done" /\ pre[i].in # None /\ fs[InPath(i)] = None)
        => CopiedAndDeleted(i)

\* C13 as amended: the input is deleted only on the copy path, after the copy
\* succeeded, with the flag set, the paths different and no failure counted.
\* In every other case the input file still exists after compute(), except
\* when the input path is the output path and is overwritten in place: after
\* a failed save and a failed restore the original is at the back-up path
\* only, and the item has failed.
C13_InputKeptOrAside ==
    \A i \in Idx :
        (Live(i) /\ pc[i] = "done" /\ pre[i].in # None /\ fs[InPath(i)] = None)
        => \/ CopiedAndDeleted(i)
           \/ /\ InPath(i) = OutPath(i)
              /\ cfg.mode = mode_overwrite
              /\ loc[i].backup /\ ~loc[i].saved
              /\ fs[BackupPath(i)] = pre[i].in
              /\ hasFailed(mBatchItems[i])

C13_Witness ==
    \E i \in Idx :
        /\ Live(i) /\ pc[i] = "done"
        /\ pre[i].in # None /\ fs[InPath(i)] = None
        /\ CopiedAndDeleted(i)

\* a run is over: the future has finished and no compute() is under way
RunOver == callerPc = "idle" /\ ~isComputing /\ finishedSig

\* the indices of the processed items, in item order
ProcessedIdx ==
    SelectSeq([i \in DOMAIN mBatchItems |-> i],
              LAMBDA i : wasProcessed(mBatchItems[i]))

\* C14: after a run has finished getNumFailures() is the number of items
\* with hasFailed(), getNumProcessed() the number of items with
\* wasProcessed(), and getResultList() holds one line per processed item, in
\* item order, tagged FAIL iff the item hasFailed() and OK otherwise; an item
\* skipped because its output exists is tagged FAIL.
C14_Aggregates ==
    RunOver =>
        /\ getNumFailures = Cardinality({i \in Idx : hasFailed(mBatchItems[i])})
        /\ getNumProcessed = Cardinality({i \in Idx : wasProcessed(mBatchItems[i])})
        /\ Len(getResultList) = Len(ProcessedIdx)
        /\ \A l \in DOMAIN getResultList :
              LET i == ProcessedIdx[l]
              IN  /\ getResultList[l][1] = InPath(i)
                  /\ getResultList[l][2] =
                        IF hasFailed(mBatchItems[i]) THEN "[FAIL]" ELSE "[OK]"
        /\ \A i \in Idx :
              (Live(i) /\ pre[i].out # None /\ cfg.mode = mode_skip_existing)
              => <<InPath(i), "[FAIL]">> \in {getResultList[l] : l \in DOMAIN getResultList}

\* a finished run of two files: the first converted, the second skipped
\* because its output exists
C14_Witness ==
    /\ RunOver /\ ~cancelled /\ getNumItems = MaxItems
    /\ getNumProcessed = MaxItems /\ getNumFailures = 1
    /\ pre[MaxItems].out # None /\ cfg.mode = mode_skip_existing
    /\ getResultList[1] = <<InPath(1), "[OK]">>
    /\ getResultList[MaxItems] = <<InPath(MaxItems), "[FAIL]">>

\* C18: when prepareDeleteExisting() fails (the generated back-up name
\* exists, or the rename of the existing output fails) the item is over: one
\* failure is counted, no file is changed, and from then on nothing is saved
\* or finalized - the output that existed is at its path with its content.
C18_PrepareFailureAborts ==
    /\ [][\A i \in Idx :
            (Live(i) /\ pc[i] = "prepare" /\ Steps(i) /\ loc'[i].prepared = "failed")
            => /\ pc'[i] = "done"
               /\ mBatchItems'[i].mFailure = mBatchItems[i].mFailure + 1
               /\ fs' = fs]_vars
    /\ [](\A i \in Idx :
            (Live(i) /\ loc[i].prepared = "failed")
            => /\ pc[i] = "done"
               /\ hasFailed(mBatchItems[i])
               /\ ~loc[i].saved /\ ~loc[i].backup
               /\ pre[i].out # None /\ fs[OutPath(i)] = pre[i].out)

C18_Witness ==
    \E i \in Idx :
        /\ Live(i) /\ pc[i] = "done" /\ loc[i].prepared = "failed"
        /\ mBatchItems[i].mFailure = 1
        /\ fs[OutPath(i)] = OldContent(i)

\* C19: finalize acts on the back-up only when prepare recorded one: for an
\* item whose mBackupFilePath is empty, deleteOrRestoreExisting() changes no
\* file and counts no failure, so a failed save leaves the item with the one
\* failure of the save.
C19_NoBackupNoRestore ==
    [][\A i \in Idx :
         (Live(i) /\ pc[i] = "finalize" /\ Steps(i) /\ BackupPath(i) = NoPath)
         => /\ pc'[i] = "done"
            /\ mBatchItems'[i].mFailure = mBatchItems[i].mFailure
            /\ fs' = fs]_vars

\* the factor by which a resize step has to scale the image: mScaleFactor
\* itself in mode_default, mScaleFactor pixels over the side the mode names
\* otherwise
EffectiveFactor(step, img) ==
    LET side == CASE step.mMode = mode_default -> 1
                  [] step.mMode = mode_long_side -> IF img.w < img.h THEN img.h ELSE img.w
                  [] step.mMode = mode_short_side -> IF img.w > img.h THEN img.h ELSE img.w
                  [] step.mMode = mode_height -> img.h
                  [] OTHER -> img.w
    IN  Quot(step.mScaleFactor.num, step.mScaleFactor.den * side)

\* the policy of the step forbids the change, or there is none to make
NothingToResize(step, img) ==
    LET f == EffectiveFactor(step, img)
    IN  \/ f.num = f.den
        \/ f.num < f.den /\ step.mProperty = prop_increase_only
        \/ f.num > f.den /\ step.mProperty = prop_decrease_only

\* C16: in each of the modes default, long side, short side and height, a
\* resize step whose policy forbids the direction of the change, or whose
\* effective factor is 1, leaves the image of the container as it is, returns
\* true and counts no failure.
C16_ResizeNoOp ==
    [][\A i \in DOMAIN proc :
         (/\ AtStep(i, "resize")
          /\ Step(i).mMode \in {mode_default, mode_long_side, mode_short_side, mode_height}
          /\ NothingToResize(Step(i), proc[i].imgC.image)
          /\ proc'[i] # proc[i])
         => /\ proc'[i].imgC.image = proc[i].imgC.image
            /\ last'[i].isOk
            /\ proc'[i].mFailure = proc[i].mFailure]_vars

\* process() of item i takes a step of the loop over mProcessFunctions
StepTaken(i) ==
    /\ i \in DOMAIN proc /\ proc[i].pos = "chain"
    /\ proc'[i] # proc[i]

\* the chain [resize 0.5, rotate 90]
HalveAndRotate ==
    <<[type |-> "resize", mScaleFactor |-> Quot(1, 2), mMode |-> mode_default,
       mProperty |-> prop_default],
      [type |-> "transform", mAngle |-> 90, mHorizontalFlip |-> FALSE,
       mVerticalFlip |-> FALSE, mCropFromMetadata |-> FALSE]>>

\* C17: when the compute() of a step returns true and has made another image
\* of the one it was given, imgC holds that image afterwards, for the steps
\* that follow and for saveImage(); the output saved after the chain
\* [resize 0.5, rotate 90] without a failure is the resized and rotated image.
C17_StepOutputIsImage ==
    /\ [][\A i \in DOMAIN proc :
            (StepTaken(i) /\ last'[i].isOk /\ last'[i].made # last'[i].given)
            => proc'[i].imgC.image = last'[i].made]_vars
    /\ [](\A i \in DOMAIN proc :
            (/\ mProcessFunctions = HalveAndRotate
             /\ proc[i].pos = "done" /\ proc[i].mFailure = 0)
            => proc[i].out.ops = <<"resize", "rotate">>)

\* loadPlugin() found a plugin for the entry
Resolved(pl) == pl.container

\* the resolved entries of a plugin step, in list order
ResolvedEntries(step) ==
    SelectSeq([idx \in DOMAIN step.mPlugins |-> idx],
              LAMBDA idx : Resolved(step.mPlugins[idx]))

\* the entries of a plugin step whose plugin compute() calls, in list order
RunEntries(step) ==
    SelectSeq([idx \in DOMAIN step.mPlugins |-> idx],
              LAMBDA idx : isRun(step.mPlugins[idx]))

\* C20 as stated: compute() of a plugin step runs every resolved plugin once,
\* in list order, whatever the earlier plugins returned, and returns false
\* exactly when the image is null after the loop.
C20_EveryResolvedPluginRuns ==
    [][\A i \in DOMAIN proc :
         (StepTaken(i) /\ Step(i).type = "plugin")
         => /\ last'[i].calls = ResolvedEntries(Step(i))
            /\ last'[i].isOk = ~isNull(last'[i].made)]_vars

\* C20, amended: compute() of a plugin step runs, once and in list order,
\* every resolved plugin that is loaded and has the basic interface, or the
\* batch interface and a batch plugin behind it, whatever the earlier plugins
\* returned; the other entries are passed over.  A step with plugins returns
\* false exactly when the container it holds after the loop has no image,
\* a step without plugins returns true; process() counts a failure exactly
\* when it returns false.
C20_EveryUsablePluginRuns ==
    [][\A i \in DOMAIN proc :
         (StepTaken(i) /\ Step(i).type = "plugin")
         => /\ last'[i].calls = RunEntries(Step(i))
            /\ last'[i].isOk = (~pluginIsActive(Step(i)) \/ ~isNull(last'[i].made))
            /\ proc'[i].mFailure = proc[i].mFailure
                                     + IF last'[i].isOk THEN 0 ELSE 1]_vars

\* a step of two plugins: both were run although neither returned an image
C20_Witness ==
    \E i \in DOMAIN proc :
        /\ proc[i].pos = "save" /\ mProcessFunctions[1].type = "plugin"
        /\ Len(mProcessFunctions[1].mPlugins) = 2
        /\ last[i].calls = <<1, 2>>
        /\ last[i].made = last[i].given
        /\ last[i].isOk /\ proc[i].mFailure = 0
        /\ faults = 2

\* the number of infos the items before item i have collected
RECURSIVE Before(_)
Before(i) == IF i = 1 THEN 0 ELSE Before(i - 1) + Len(proc[i - 1].mInfos)

\* batchInfo is the lists of all items one after the other, in item order
Combined(batchInfo) ==
    /\ Len(batchInfo) = Before(Len(proc) + 1)
    /\ \A i \in DOMAIN proc : \A n \in DOMAIN proc[i].mInfos :
           batchInfo[Before(i) + n] = proc[i].mInfos[n]

\* the infos of batchInfo tagged with runID, in their order
Tagged(batchInfo, runID) ==
    SelectSeq(batchInfo, LAMBDA info : info.id = runID)

PostLoaded == delivered # <<>>

\* C15 as stated: postLoad() hands every step the infos of all items
\* combined, and a plugin step hands every resolved plugin the infos tagged
\* with its run id.
C15_EveryResolvedPluginGetsItsInfos ==
    PostLoaded =>
        \A k \in DOMAIN mProcessFunctions :
            /\ Combined(delivered[k].batchInfo)
            /\ mProcessFunctions[k].type = "plugin" =>
                   \A idx \in DOMAIN mProcessFunctions[k].mPlugins :
                       Resolved(mProcessFunctions[k].mPlugins[idx]) =>
                           delivered[k].plugins[idx] =
                               Tagged(delivered[k].batchInfo,
                                      mProcessFunctions[k].mPlugins[idx].runID)

\* C15, amended: postLoad() hands every step the infos of all items combined
\* (each item's list, in item order, nothing left out or repeated), and a
\* plugin step hands every resolved plugin that has a batch plugin behind it
\* the infos tagged with its run id; postLoadPlugin() is called for no other
\* entry.
C15_EveryBatchPluginGetsItsInfos ==
    PostLoaded =>
        \A k \in DOMAIN mProcessFunctions :
            /\ Combined(delivered[k].batchInfo)
            /\ mProcessFunctions[k].type = "plugin" =>
                   \A idx \in DOMAIN mProcessFunctions[k].mPlugins :
                       LET pl == mProcessFunctions[k].mPlugins[idx]
                       IN  delivered[k].plugins[idx] =
                               IF Resolved(pl) /\ pl.batchPlugin
                               THEN Tagged(delivered[k].batchInfo, pl.runID)
                               ELSE NotCalled

\* two items ran two batch plugins with different run ids; each plugin is
\* handed its two infos of the four
C15_Witness ==
    /\ PostLoaded
    /\ Len(delivered[1].batchInfo) = 4
    /\ \A idx \in {1, 2} :
           /\ Len(delivered[1].plugins[idx]) = 2
           /\ delivered[1].plugins[idx][1].item = 1
           /\ delivered[1].plugins[idx][2].item = 2
    /\ delivered[1].plugins[1] # delivered[1].plugins[2]

\* item i takes the "copy?" branch of compute() onto an output that exists,
\* in mode overwrite
CopyOverExisting(i) ==
    /\ Live(i)
    /\ cfg.nSteps = 0 /\ cfg.kind[i] = "same_suffix" /\ cfg.mode = mode_overwrite
    /\ pre[i].in # None /\ pre[i].out # None

\* C21: a copy in mode overwrite onto an existing output: when no file
\* operation fails on its own, compute() ends with the content of the input at
\* the output path and no failure counted; and whatever fails, the output
\* path holds the content it had or the content of the input.
C21_CopyReplacesOutput ==
    \A i \in Idx :
        CopyOverExisting(i) =>
            /\ fs[OutPath(i)] \in {pre[i].out, pre[i].in}
            /\ (pc[i] = "done" /\ faults = 0)
                   => /\ fs[OutPath(i)] = pre[i].in
                      /\ ~hasFailed(mBatchItems[i])

\* the first run of the runner is under way or over, its list in place
FirstRun == runs = 1 /\ callerPc = "idle" /\ futStale = "no"

\* C22: whenever getCurrentResults() is called while the items execute, what
\* mResList reports agrees with the items: an item that is still inside
\* compute() is not classified, an index reported as succeeded is an item
\* that has not failed, and once the run is over an index that is classified
\* is failed exactly when its item hasFailed().
C22_PollAgreesWithItems ==
    FirstRun =>
        \A idx \in DOMAIN mResList :
            mResList[idx] # batch_item_not_computed =>
                /\ ~InFlight(idx)
                /\ mResList[idx] = batch_item_succeeded
                       => ~hasFailed(mBatchItems[idx])
                /\ RunOver => (mResList[idx] = batch_item_failed
                                  <=> hasFailed(mBatchItems[idx]))

\* the value of the expression every return of compute() returns
computeReturns(item) == ~hasFailed(item)

\* C23: an item that hasFailed() wasProcessed(), the failure counter of an
\* item never decreases, compute() returns true exactly when the counter is
\* zero, and at every moment
\* getNumFailures() <= getNumProcessed() <= getNumItems().
C23_CountersConsistent ==
    /\ [](\A idx \in DOMAIN mBatchItems :
             /\ hasFailed(mBatchItems[idx]) => wasProcessed(mBatchItems[idx])
             /\ computeReturns(mBatchItems[idx]) <=> mBatchItems[idx].mFailure = 0)
    /\ [](getNumFailures <= getNumProcessed /\ getNumProcessed <= getNumItems)
    /\ [][~ListReplaced =>
             \A idx \in DOMAIN mBatchItems :
                 mBatchItems'[idx].mFailure >= mBatchItems[idx].mFailure]_vars

=============================================================================
